---- MODULE Spec2Model ----
(***************************************************************************)
(* A model of dictdiff (src/dictdiff/__init__.py): the interactive diff    *)
(* session of class DictDiff (ShowDiff / _ShowDiff / _ShowRow), WasChanged *)
(* and the instruction interpreter ApplyDiff.                              *)
(*                                                                         *)
(* Dictionaries are functions whose domain is the set of keys present.     *)
(* Keys are integers (Python's sorted() order is the order of <), values   *)
(* are integers, and the empty string "" that _ShowDiff passes for a       *)
(* missing side is the value EmptyStr.  An instruction is the tuple        *)
(* <<action, key, value>>, Python's None for "no instruction" is None.     *)
(***************************************************************************)
EXTENDS Integers, Sequences, FiniteSets, TLC

(* ------------------------------ bounds -------------------------------- *)

\* keys of the dictionaries A and B of a diff session are 1..MaxKey
MaxKey == 2

\* values stored in A and B are 1..MaxVal
MaxVal == 2

\* keys of the source dictionary and of the instructions given to ApplyDiff
\* when it is called directly are 1..MaxSrcKey
MaxSrcKey == 1

\* values of that source dictionary and of those instructions are 1..MaxSrcVal
MaxSrcVal == 1

\* longest instruction list handed directly to ApplyDiff
MaxLen == 2
MaxFairKey == 1
MaxFairVal == 2

(* ----------------------------- constants ------------------------------ *)

\* the "" passed as the right value of a Deleted key and the left value of an Added key
EmptyStr == 0

\* Python's None, returned by _ShowRow when no instruction is emitted
None == <<>>

\* the empty dictionary {}
EmptyDict == [k \in {} |-> 0]

Keys == 1..MaxKey

Vals == 1..MaxVal

\* every dictionary over the keys ks with values in vs
DictsOver(ks, vs) == UNION {[s -> vs] : s \in SUBSET ks}

\* the lines the operator can type at a prompt ("z" stands for any other text)
Inputs == {"", "c", "l", "L", "r", "n", "d", "s", "z"}

\* the lines the operator can type at the save/redo prompt, which compares its
\* input with 's', '' and 'r' only ("z" stands for any other text)
OuterInputs == {"", "s", "r", "z"}

\* what the operator can type at the "Enter new value: " prompt: the empty
\* line or a text, which may or may not be a value the dictionaries hold
InputVals == {EmptyStr, 1}

\* the action codes ApplyDiff can meet in a list ("x" stands for any unknown code)
Codes == {"k", "a", "d", "e", "x"}

\* the default permission flags of ApplyDiff
DefaultFlags == [allowAdd |-> TRUE, allowDelete |-> TRUE, allowChange |-> TRUE, allowKeep |-> TRUE]

AllFlags == [allowAdd : BOOLEAN, allowDelete : BOOLEAN, allowChange : BOOLEAN, allowKeep : BOOLEAN]

(* ------------------------------ state --------------------------------- *)

VARIABLES
    A,          \* self._a
    B,          \* self._b
    autoaccept, \* the autoaccept argument of ShowDiff
    pc,         \* where the program is
    rows,       \* the _ShowRow calls of the pass, from _ShowDiff's a_has, b_has and common
    idx,        \* position of _ShowDiff in its three key loops (1-based, over rows)
    ret,        \* _ShowDiff's list of instructions of the current pass
    which,      \* _ShowRow's last input line
    val,        \* _ShowRow's last "Enter new value" input
    zz,         \* the last value returned by _ShowRow
    kdone,      \* position of the row zz was returned for (0: none in this pass)
    owhich,     \* ShowDiff's last input line at the save/redo prompt
    asked,      \* whether input() has been called since the session began
    res,        \* the list ShowDiff returned
    heap,       \* the dictionaries ApplyDiff works with: the caller's src and the one dict() makes
    src0,       \* the content of src when ApplyDiff was called
    diff,       \* ApplyDiff's instruction list
    flags,      \* ApplyDiff's four permission flags
    retRef,     \* which dictionary ApplyDiff's local ret refers to
    i,          \* position of ApplyDiff's loop in diff
    out,        \* how ApplyDiff ended: "None", "dict" or "raise"
    err         \* the error ApplyDiff raised

sessionVars == <<A, B, autoaccept, rows, idx, ret, which, val, zz, kdone, owhich, asked, res>>

applyVars == <<heap, src0, diff, flags, retRef, i, out, err>>

vars == <<A, B, autoaccept, pc, rows, idx, ret, which, val, zz, kdone, owhich, asked, res,
          heap, src0, diff, flags, retRef, i, out, err>>

(* ------------------------- dictionary helpers ------------------------- *)

\* ret[k] = v
DictSet(m, k, v) == [x \in (DOMAIN m) \cup {k} |-> IF x = k THEN v ELSE m[x]]

\* del ret[k], for a key that is present
DictDel(m, k) == [x \in (DOMAIN m) \ {k} |-> m[x]]

\* sorted(S) for a set of keys
RECURSIVE sorted(_)
sorted(S) ==
    IF S = {} THEN <<>>
    ELSE LET m == CHOOSE x \in S : \A y \in S : x <= y
         IN  <<m>> \o sorted(S \ {m})

\* str.lower() on the input lines of the model
Lower(s) ==
    CASE s = "C" -> "c"
      [] s = "L" -> "l"
      [] s = "R" -> "r"
      [] s = "N" -> "n"
      [] s = "D" -> "d"
      [] s = "S" -> "s"
      [] OTHER -> s

(* --------------------------- _ShowDiff keys --------------------------- *)

common(a, b) == sorted((DOMAIN a) \cap (DOMAIN b))

\* a_has with the set difference forgotten: every key of A
a_has_all(a, b) == sorted(DOMAIN a)

a_has(a, b) == sorted((DOMAIN a) \ (DOMAIN b))

b_has(a, b) == sorted((DOMAIN b) \ (DOMAIN a))

\* the arguments of the _ShowRow call for a key only in A
DeletedRow(a, b, k) == [k |-> k, left |-> a[k], right |-> EmptyStr, status |-> "Deleted"]

\* the arguments of the _ShowRow call for a key only in B
AddedRow(a, b, k) == [k |-> k, left |-> EmptyStr, right |-> b[k], status |-> "Added"]

\* the arguments of the _ShowRow call for a key in both
CommonRow(a, b, k) ==
    [k |-> k, left |-> a[k], right |-> b[k],
     status |-> IF a[k] = b[k] THEN "Unchanged" ELSE "Different"]

\* the three loops in another order: the common keys first
RowsCommonFirst(a, b) ==
    [n \in 1..Len(common(a, b)) |-> CommonRow(a, b, common(a, b)[n])]
    \o [n \in 1..Len(a_has(a, b)) |-> DeletedRow(a, b, a_has(a, b)[n])]
    \o [n \in 1..Len(b_has(a, b)) |-> AddedRow(a, b, b_has(a, b)[n])]

\* the _ShowRow calls of one pass, in the order of _ShowDiff's three loops
Rows(a, b) ==
    [n \in 1..Len(a_has(a, b)) |-> DeletedRow(a, b, a_has(a, b)[n])]
    \o [n \in 1..Len(b_has(a, b)) |-> AddedRow(a, b, b_has(a, b)[n])]
    \o [n \in 1..Len(common(a, b)) |-> CommonRow(a, b, common(a, b)[n])]

(* ------------------------------ _ShowRow ------------------------------ *)

\* autoaccept asking for a new value where the two sides differ
AutoWhichNew(status) == IF status = "Unchanged" THEN "c" ELSE "n"

\* autoaccept taking the LEFT value of a changed key
AutoWhichLeft(status) == IF status = "Unchanged" THEN "c" ELSE "l"

\* the input autoaccept puts in place of the operator's, by status
AutoWhich(status) == IF status = "Unchanged" THEN "c" ELSE "r"

\* the branch of _ShowRow's loop for status 'Unchanged', on input w:
\* "return" zz, "input" (ask for the new value) or "again" (unrecognized)
ShowRowUnchanged(row, w) ==
    IF Lower(w) = "c" \/ Len(w) = 0
      THEN [act |-> "return", zz |-> <<"k", row.k, row.left>>]
    ELSE IF Lower(w) = "n"
      THEN [act |-> "input", zz |-> None]
    ELSE IF Lower(w) = "d"
      THEN [act |-> "return", zz |-> <<"d", row.k, row.left>>]
    ELSE [act |-> "again", zz |-> None]

\* LEFT on an Added key answered with a KEEP instead of no instruction
ShowRowLeftKeepsAdded(row) == <<"k", row.k, row.left>>

\* what choosing the LEFT value returns
ShowRowLeft(row) ==
    IF row.status = "Deleted" THEN <<"k", row.k, row.left>>
    ELSE IF row.status = "Added" THEN None
    ELSE <<"k", row.k, row.left>>

\* RIGHT on a Deleted key answered with a KEEP instead of a DELETE
ShowRowRightKeepsDeleted(row) ==
    IF row.status = "Deleted" THEN <<"k", row.k, row.left>>
    ELSE IF row.status = "Added" THEN <<"a", row.k, row.right>>
    ELSE <<"e", row.k, row.right>>

\* what choosing the RIGHT value returns
ShowRowRight(row) ==
    IF row.status = "Deleted" THEN <<"d", row.k, row.right>>
    ELSE IF row.status = "Added" THEN <<"a", row.k, row.right>>
    ELSE <<"e", row.k, row.right>>

\* the branch of _ShowRow's loop for the other statuses, on input w
ShowRowChanged(row, w) ==
    IF Lower(w) = "l"
      THEN [act |-> "return", zz |-> ShowRowLeft(row)]
    ELSE IF Lower(w) = "r"
      THEN [act |-> "return", zz |-> ShowRowRight(row)]
    ELSE IF Lower(w) = "n"
      THEN [act |-> "input", zz |-> None]
    ELSE IF Lower(w) = "d"
      THEN [act |-> "return", zz |-> <<"d", row.k, row.left>>]
    ELSE [act |-> "again", zz |-> None]

\* a turn of _ShowRow that takes an input it does not know as "keep the left value"
ShowRowUnknownKeeps(row, w) ==
    LET r == IF row.status = "Unchanged" THEN ShowRowUnchanged(row, w)
             ELSE ShowRowChanged(row, w)
    IN  IF r.act = "again" THEN [act |-> "return", zz |-> <<"k", row.k, row.left>>]
        ELSE r

\* one turn of _ShowRow's "while True" on input w (justprint is always False)
ShowRow(row, w) ==
    IF row.status = "Unchanged" THEN ShowRowUnchanged(row, w)
    ELSE ShowRowChanged(row, w)

\* the new value returned under the letter of the choice instead of an EDIT
ShowRowNewValueRaw(row, v) == <<"n", row.k, v>>

\* what _ShowRow returns once the new value v has been entered
ShowRowNewValue(row, v) == <<"e", row.k, v>>

(* ----------------------- ShowDiff and _ShowDiff ----------------------- *)

\* ret.append(zz) unless zz is None
Append_zz(r, z) == IF z # None THEN Append(r, z) ELSE r

\* the summary loop of ShowDiff raises KeyError on an unknown action code
SummaryOk(r) == \A n \in 1..Len(r) : r[n][1] \in {"a", "d", "k", "e"}

\* where control goes when _ShowRow has returned for row n with the list r:
\* the next row, or the end of _ShowDiff, the summary and the save/redo prompt
AfterRow(rs, n, r) ==
    IF n < Len(rs) THEN "row"
    ELSE IF SummaryOk(r) THEN "outer" ELSE "fatal"

\* the outer decision of ShowDiff on input w: save, redo or ask again
Outer(w) ==
    IF w = "s" \/ Len(w) = 0 THEN "saved"
    ELSE IF w = "r" THEN "ShowDiff"
    ELSE "outer"

\* a pass that goes on with the list of the pass before it
BeginPassKeepsRet ==
    /\ rows' = Rows(A, B)
    /\ ret' = ret
    /\ kdone' = 0
    /\ zz' = None
    /\ which' = ""
    /\ val' = EmptyStr
    /\ idx' = IF Rows(A, B) = <<>> THEN 0 ELSE 1
    /\ pc' = IF Rows(A, B) = <<>> THEN "outer" ELSE "row"

\* the top of ShowDiff's outer loop: _ShowDiff is called and starts a pass with
\* an empty list; it returns at once when both dictionaries are empty,
\* otherwise the first row is shown
BeginPass ==
    /\ rows' = Rows(A, B)
    /\ ret' = <<>>
    /\ kdone' = 0
    /\ zz' = None
    /\ which' = ""
    /\ val' = EmptyStr
    /\ idx' = IF Rows(A, B) = <<>> THEN 0 ELSE 1
    /\ pc' = IF Rows(A, B) = <<>> THEN "outer" ELSE "row"

\* ShowDiff is called and runs its first pass
StartPass ==
    /\ pc = "ShowDiff"
    /\ BeginPass
    /\ owhich' = ""
    /\ UNCHANGED <<A, B, autoaccept, asked, res>>
    /\ UNCHANGED applyVars

\* the step of _ShowRow on the input w for the row at idx
RowStep(w) ==
    LET row == rows[idx]
        r   == ShowRow(row, w)
    IN  /\ which' = w
        /\ val' = EmptyStr
        /\ owhich' = ""
        /\ IF r.act = "return"
             THEN /\ zz' = r.zz
                  /\ kdone' = idx
                  /\ ret' = Append_zz(ret, r.zz)
                  /\ idx' = idx + 1
                  /\ pc' = AfterRow(rows, idx, Append_zz(ret, r.zz))
             ELSE /\ pc' = IF r.act = "input" THEN "newval" ELSE "row"
                  /\ UNCHANGED <<zz, kdone, ret, idx>>
        /\ UNCHANGED <<A, B, autoaccept, rows, res>>
        /\ UNCHANGED applyVars

\* _ShowRow under autoaccept: no input is read
ShowRowAuto ==
    /\ pc = "row"
    /\ autoaccept
    /\ RowStep(AutoWhich(rows[idx].status))
    /\ UNCHANGED asked

\* _ShowRow reads the operator's choice
ShowRowInput ==
    /\ pc = "row"
    /\ ~autoaccept
    /\ \E w \in Inputs : RowStep(w)
    /\ asked' = TRUE

\* _ShowRow reads the new value and returns the edit
EnterNewValue ==
    /\ pc = "newval"
    /\ \E v \in InputVals :
         /\ val' = v
         /\ zz' = ShowRowNewValue(rows[idx], v)
         /\ ret' = Append_zz(ret, ShowRowNewValue(rows[idx], v))
         /\ pc' = AfterRow(rows, idx, Append_zz(ret, ShowRowNewValue(rows[idx], v)))
    /\ kdone' = idx
    /\ idx' = idx + 1
    /\ asked' = TRUE
    /\ UNCHANGED <<A, B, autoaccept, rows, which, owhich, res>>
    /\ UNCHANGED applyVars

\* the step of ShowDiff's inner loop on the input w, which owhich holds until
\* the next prompt is answered; "return ret" ends the call, and with it the
\* locals of _ShowDiff and _ShowRow; redo breaks to the top of the outer loop,
\* where the next pass begins
OuterStep(w) ==
    /\ owhich' = w
    /\ IF Outer(w) = "saved"
         THEN /\ pc' = "saved"
              /\ res' = ret
              /\ rows' = <<>>
              /\ idx' = 0
              /\ ret' = <<>>
              /\ which' = ""
              /\ val' = EmptyStr
              /\ zz' = None
              /\ kdone' = 0
         ELSE IF Outer(w) = "ShowDiff"
         THEN /\ BeginPass
              /\ UNCHANGED res
         ELSE /\ pc' = "outer"
              /\ UNCHANGED <<res, rows, idx, ret, which, val, zz, kdone>>
    /\ UNCHANGED <<A, B, autoaccept>>
    /\ UNCHANGED applyVars

\* the save/redo decision under autoaccept: which = 's'
OuterAuto ==
    /\ pc = "outer"
    /\ autoaccept
    /\ OuterStep("s")
    /\ UNCHANGED asked

\* the save/redo decision read from the operator
OuterInput ==
    /\ pc = "outer"
    /\ ~autoaccept
    /\ \E w \in OuterInputs : OuterStep(w)
    /\ asked' = TRUE

(* ----------------------------- WasChanged ----------------------------- *)

\* a change test that looks for EDIT instructions only
WasChangedEdits(props) == \E n \in 1..Len(props) : props[n][1] = "e"

\* any instruction of the list is something other than KEEP
WasChanged(props) == \E n \in 1..Len(props) : props[n][1] # "k"

(* ------------------------------ ApplyDiff ----------------------------- *)

\* ret = src: no copy, ret is the caller's dictionary
dict_alias(h, r) == [heap |-> h, ref |-> r]

\* ret = dict(src): a new dictionary with the content of the one at r
dict_copy(h, r) == [heap |-> [h EXCEPT !["new"] = h[r]], ref |-> "new"]

\* nochange decided on the first instruction alone
nochangeFirst(df) == df = <<>> \/ df[1][1] = "k"

\* nochange = all([d[0] == 'k' for d in diff])
nochange(df) == \A n \in 1..Len(df) : df[n][1] = "k"

\* the loop body with the allowKeep test left out
ApplyInstrKeepUnchecked(m, d, fl) ==
    IF d[1] = "d" THEN
         IF ~fl.allowDelete THEN [err |-> "PermissionDenied", m |-> m]
         ELSE IF d[2] \notin DOMAIN m THEN [err |-> "KeyNotFound", m |-> m]
         ELSE [err |-> "", m |-> DictDel(m, d[2])]
    ELSE IF d[1] = "a" THEN
         IF ~fl.allowAdd THEN [err |-> "PermissionDenied", m |-> m]
         ELSE [err |-> "", m |-> DictSet(m, d[2], d[3])]
    ELSE IF d[1] = "k" THEN [err |-> "", m |-> m]
    ELSE IF d[1] = "e" THEN
         IF ~fl.allowChange THEN [err |-> "PermissionDenied", m |-> m]
         ELSE [err |-> "", m |-> DictSet(m, d[2], d[3])]
    ELSE [err |-> "UnrecognizedInstruction", m |-> m]

\* the loop body with the allowAdd test inverted
ApplyInstrAddInverted(m, d, fl) ==
    IF d[1] = "d" THEN
         IF ~fl.allowDelete THEN [err |-> "PermissionDenied", m |-> m]
         ELSE IF d[2] \notin DOMAIN m THEN [err |-> "KeyNotFound", m |-> m]
         ELSE [err |-> "", m |-> DictDel(m, d[2])]
    ELSE IF d[1] = "a" THEN
         IF fl.allowAdd THEN [err |-> "PermissionDenied", m |-> m]
         ELSE [err |-> "", m |-> DictSet(m, d[2], d[3])]
    ELSE IF d[1] = "k" THEN
         IF ~fl.allowKeep THEN [err |-> "PermissionDenied", m |-> m]
         ELSE [err |-> "", m |-> m]
    ELSE IF d[1] = "e" THEN
         IF ~fl.allowChange THEN [err |-> "PermissionDenied", m |-> m]
         ELSE [err |-> "", m |-> DictSet(m, d[2], d[3])]
    ELSE [err |-> "UnrecognizedInstruction", m |-> m]

\* the loop body with a Delete that tests the key but does not remove it
ApplyInstrDeleteKeeps(m, d, fl) ==
    IF d[1] = "d" THEN
         IF ~fl.allowDelete THEN [err |-> "PermissionDenied", m |-> m]
         ELSE IF d[2] \notin DOMAIN m THEN [err |-> "KeyNotFound", m |-> m]
         ELSE [err |-> "", m |-> m]
    ELSE IF d[1] = "a" THEN
         IF ~fl.allowAdd THEN [err |-> "PermissionDenied", m |-> m]
         ELSE [err |-> "", m |-> DictSet(m, d[2], d[3])]
    ELSE IF d[1] = "k" THEN
         IF ~fl.allowKeep THEN [err |-> "PermissionDenied", m |-> m]
         ELSE [err |-> "", m |-> m]
    ELSE IF d[1] = "e" THEN
         IF ~fl.allowChange THEN [err |-> "PermissionDenied", m |-> m]
         ELSE [err |-> "", m |-> DictSet(m, d[2], d[3])]
    ELSE [err |-> "UnrecognizedInstruction", m |-> m]

\* the body of ApplyDiff's loop for the instruction d on the dictionary m:
\* the error raised ("" when none) and the dictionary afterwards
ApplyInstr(m, d, fl) ==
    IF d[1] = "d" THEN
         IF ~fl.allowDelete THEN [err |-> "PermissionDenied", m |-> m]
         ELSE IF d[2] \notin DOMAIN m THEN [err |-> "KeyNotFound", m |-> m]
         ELSE [err |-> "", m |-> DictDel(m, d[2])]
    ELSE IF d[1] = "a" THEN
         IF ~fl.allowAdd THEN [err |-> "PermissionDenied", m |-> m]
         ELSE [err |-> "", m |-> DictSet(m, d[2], d[3])]
    ELSE IF d[1] = "k" THEN
         IF ~fl.allowKeep THEN [err |-> "PermissionDenied", m |-> m]
         ELSE [err |-> "", m |-> m]
    ELSE IF d[1] = "e" THEN
         IF ~fl.allowChange THEN [err |-> "PermissionDenied", m |-> m]
         ELSE [err |-> "", m |-> DictSet(m, d[2], d[3])]
    ELSE [err |-> "UnrecognizedInstruction", m |-> m]

\* d.ApplyDiff(a, res): the list ShowDiff returned is applied to A with the default flags
CallApply ==
    /\ pc = "saved"
    /\ pc' = "ApplyDiff"
    /\ heap' = [src |-> A, new |-> EmptyDict]
    /\ src0' = A
    /\ diff' = res
    /\ flags' = DefaultFlags
    /\ owhich' = ""
    /\ UNCHANGED <<retRef, i, out, err>>
    /\ UNCHANGED <<A, B, autoaccept, rows, idx, ret, which, val, zz, kdone, asked, res>>

\* ApplyDiff copies src, then returns None when there is no change
ApplyBegin ==
    /\ pc = "ApplyDiff"
    /\ heap' = dict_copy(heap, "src").heap
    /\ retRef' = dict_copy(heap, "src").ref
    /\ pc' = IF nochange(diff) THEN "done" ELSE "loop"
    /\ out' = IF nochange(diff) THEN "None" ELSE out
    /\ i' = IF nochange(diff) THEN i ELSE 1
    /\ UNCHANGED <<src0, diff, flags, err>>
    /\ UNCHANGED sessionVars

\* the loop going on after a failing instruction: the first error is kept and
\* raised once the whole list has been tried
ApplyStepContinue ==
    /\ pc = "loop"
    /\ LET r == ApplyInstr(heap[retRef], diff[i], flags)
           e == IF err = "" THEN r.err ELSE err
       IN  /\ heap' = [heap EXCEPT ![retRef] = r.m]
           /\ err' = e
           /\ pc' = IF i = Len(diff) THEN "done" ELSE "loop"
           /\ out' = IF i < Len(diff) THEN out ELSE IF e = "" THEN "dict" ELSE "raise"
           /\ i' = IF i = Len(diff) THEN i ELSE i + 1
    /\ UNCHANGED <<src0, diff, flags, retRef>>
    /\ UNCHANGED sessionVars

\* one turn of ApplyDiff's loop; after the last instruction ret is returned
ApplyStep ==
    /\ pc = "loop"
    /\ LET r == ApplyInstr(heap[retRef], diff[i], flags)
       IN  IF r.err # ""
             THEN /\ pc' = "done"
                  /\ out' = "raise"
                  /\ err' = r.err
                  /\ UNCHANGED <<heap, i>>
             ELSE /\ heap' = [heap EXCEPT ![retRef] = r.m]
                  /\ pc' = IF i = Len(diff) THEN "done" ELSE "loop"
                  /\ out' = IF i = Len(diff) THEN "dict" ELSE out
                  /\ i' = IF i = Len(diff) THEN i ELSE i + 1
                  /\ err' = err
    /\ UNCHANGED <<src0, diff, flags, retRef>>
    /\ UNCHANGED sessionVars

(* --------------------------- specifications --------------------------- *)

\* ApplyDiff has not been called
ApplyIdle ==
    /\ heap = [src |-> EmptyDict, new |-> EmptyDict]
    /\ src0 = EmptyDict
    /\ diff = <<>>
    /\ flags = DefaultFlags
    /\ retRef = "none"
    /\ i = 0
    /\ out = ""
    /\ err = ""

\* no diff session is running
SessionIdle ==
    /\ A = EmptyDict
    /\ B = EmptyDict
    /\ autoaccept = FALSE
    /\ rows = <<>>
    /\ idx = 0
    /\ ret = <<>>
    /\ which = ""
    /\ val = EmptyStr
    /\ zz = None
    /\ kdone = 0
    /\ owhich = ""
    /\ asked = FALSE
    /\ res = <<>>

\* DictDiff(a, b) has been built and ShowDiff or AutoDiff is called
Init ==
    /\ A \in DictsOver(Keys, Vals)
    /\ B \in DictsOver(Keys, Vals)
    /\ autoaccept \in BOOLEAN
    /\ pc = "ShowDiff"
    /\ rows = <<>>
    /\ idx = 0
    /\ ret = <<>>
    /\ which = ""
    /\ val = EmptyStr
    /\ zz = None
    /\ kdone = 0
    /\ owhich = ""
    /\ asked = FALSE
    /\ res = <<>>
    /\ ApplyIdle

Next ==
    \/ StartPass
    \/ ShowRowAuto
    \/ ShowRowInput
    \/ EnterNewValue
    \/ OuterAuto
    \/ OuterInput
    \/ CallApply
    \/ ApplyBegin
    \/ ApplyStep

\* a diff session over A and B, whose list is then applied to A
Spec == Init /\ [][Next]_vars

\* an attended operator's answer that _ShowRow accepts: the key is resolved, or
\* the new value is asked for
RecognizedInput ==
    /\ pc = "row"
    /\ ~autoaccept
    /\ \E w \in Inputs :
         /\ ShowRow(rows[idx], w).act # "again"
         /\ RowStep(w)
    /\ asked' = TRUE

\* the operator's answer "save" at the save/redo prompt
SaveInput ==
    /\ pc = "outer"
    /\ ~autoaccept
    /\ \E w \in {"", "s"} : OuterStep(w)
    /\ asked' = TRUE

\* DictDiff(a, b) has been built over a small key set and ShowDiff is called
InitFair ==
    /\ A \in DictsOver(1..MaxFairKey, 1..MaxFairVal)
    /\ B \in DictsOver(1..MaxFairKey, 1..MaxFairVal)
    /\ autoaccept \in BOOLEAN
    /\ pc = "ShowDiff"
    /\ rows = <<>>
    /\ idx = 0
    /\ ret = <<>>
    /\ which = ""
    /\ val = EmptyStr
    /\ zz = None
    /\ kdone = 0
    /\ owhich = ""
    /\ asked = FALSE
    /\ res = <<>>
    /\ ApplyIdle

NextSession ==
    \/ StartPass
    \/ ShowRowAuto
    \/ ShowRowInput
    \/ EnterNewValue
    \/ OuterAuto
    \/ OuterInput

\* the code runs on without waiting whenever it reads no input; the operator
\* who attends the prompts answers each per-key prompt with an accepted choice
\* in the end, and answers "save" in the end however often the pass is redone
Fairness ==
    /\ WF_vars(StartPass)
    /\ WF_vars(ShowRowAuto)
    /\ WF_vars(OuterAuto)
    /\ WF_vars(RecognizedInput)
    /\ WF_vars(EnterNewValue)
    /\ SF_vars(SaveInput)

\* one diff session with an operator who attends the prompts
SpecFair == InitFair /\ [][NextSession]_vars /\ Fairness

\* the instructions a caller can put in a list
Instrs == Codes \X (1..MaxSrcKey) \X (1..MaxSrcVal)

\* the instruction lists of at most MaxLen instructions
Diffs == UNION {[1..n -> Instrs] : n \in 0..MaxLen}

\* ApplyDiff is called with any source, any instruction list and any flags
InitApply ==
    /\ SessionIdle
    /\ pc = "ApplyDiff"
    /\ heap \in [src : DictsOver(1..MaxSrcKey, 1..MaxSrcVal), new : {EmptyDict}]
    /\ src0 = heap.src
    /\ diff \in Diffs
    /\ flags \in AllFlags
    /\ retRef = "none"
    /\ i = 0
    /\ out = ""
    /\ err = ""

NextApply ==
    \/ ApplyBegin
    \/ ApplyStep

\* one direct call of ApplyDiff
SpecApply == InitApply /\ [][NextApply]_vars

(* ------------------------------- claims ------------------------------- *)

\* ApplyDiff has ended, by returning or by raising
ApplyEnded == pc = "done"

\* the keys of a list of instructions
KeysOf(l) == {l[n][2] : n \in 1..Len(l)}

\* the instruction d is of a kind the flags fl do not allow
Disallowed(d, fl) ==
    \/ d[1] = "a" /\ ~fl.allowAdd
    \/ d[1] = "d" /\ ~fl.allowDelete
    \/ d[1] = "e" /\ ~fl.allowChange
    \/ d[1] = "k" /\ ~fl.allowKeep

\* the position of the first instruction of l that fl does not allow
FirstDisallowed(l, fl) ==
    CHOOSE n \in 1..Len(l) :
        /\ Disallowed(l[n], fl)
        /\ \A m \in 1..(n - 1) : ~Disallowed(l[m], fl)

\* every action code of l is one of the four known codes
KnownCodes(l) == \A n \in 1..Len(l) : l[n][1] \in {"k", "a", "d", "e"}

\* C1 as stated: applying the autoaccept list of (A, B) to A with all flags
\* true returns a dictionary equal to B, also when A = B.
C1_RoundTripAlways ==
    (autoaccept /\ ApplyEnded) => (out = "dict" /\ heap[retRef] = B)

\* C1 (amended): applying the autoaccept list of (A, B) to A with all flags
\* true returns a dictionary equal to B when A # B, and returns None (the
\* "unchanged" signal, no dictionary) when A = B, the empty case included.
C1_RoundTrip ==
    (autoaccept /\ ApplyEnded) =>
        IF A = B THEN out = "None" ELSE (out = "dict" /\ heap[retRef] = B)

\* C1 witness: a round trip that deleted a key, added a key and returned B
C1_Witness ==
    /\ autoaccept
    /\ ApplyEnded
    /\ out = "dict"
    /\ heap[retRef] = B
    /\ (DOMAIN A) \ (DOMAIN B) # {}
    /\ (DOMAIN B) \ (DOMAIN A) # {}

\* C2 as stated: whenever a flag is false and the list holds an instruction of
\* its kind, ApplyDiff fails with PermissionDenied.
C2_PermissionAlwaysDenied ==
    (ApplyEnded /\ \E n \in 1..Len(diff) : Disallowed(diff[n], flags)) =>
        (out = "raise" /\ err = "PermissionDenied")

\* C2 (amended): whenever a flag is false and the list holds an instruction of
\* its kind, ApplyDiff returns no dictionary.  If the list is all Keep it
\* returns None whatever allowKeep is; otherwise it fails at or before the
\* first disallowed instruction: with PermissionDenied at that instruction,
\* unless an earlier instruction failed with KeyNotFound or
\* UnrecognizedInstruction.
C2_PermissionEnforced ==
    (ApplyEnded /\ \E n \in 1..Len(diff) : Disallowed(diff[n], flags)) =>
        IF \A n \in 1..Len(diff) : diff[n][1] = "k"
          THEN out = "None"
          ELSE /\ out = "raise"
               /\ \/ i = FirstDisallowed(diff, flags) /\ err = "PermissionDenied"
                  \/ /\ i < FirstDisallowed(diff, flags)
                     /\ err \in {"KeyNotFound", "UnrecognizedInstruction"}

\* C2 witness: a Keep is refused with PermissionDenied after an earlier
\* instruction of the list was applied
C2_Witness ==
    /\ ApplyEnded
    /\ ~flags.allowKeep
    /\ out = "raise"
    /\ err = "PermissionDenied"
    /\ i > 1
    /\ diff[i][1] = "k"

\* C3 as stated: with all flags true and only known action codes ApplyDiff
\* never fails.
C3_NeverFails ==
    (ApplyEnded /\ flags = DefaultFlags /\ KnownCodes(diff)) => out # "raise"

\* C3 (amended): with all flags true and only known action codes ApplyDiff
\* never fails with PermissionDenied or UnrecognizedInstruction; its only
\* failure is KeyNotFound, raised by a Delete whose key is absent from the
\* working copy when it is executed, so a list without Delete never fails.
C3_OnlyKeyNotFound ==
    (ApplyEnded /\ flags = DefaultFlags /\ KnownCodes(diff)) =>
        /\ out = "raise" =>
             /\ err = "KeyNotFound"
             /\ diff[i][1] = "d"
             /\ diff[i][2] \notin DOMAIN heap[retRef]
        /\ (\A n \in 1..Len(diff) : diff[n][1] # "d") => out # "raise"

\* C3 witness: all flags true, an Add and then a Delete, and a dictionary is returned
C3_Witness ==
    /\ ApplyEnded
    /\ flags = DefaultFlags
    /\ Len(diff) >= 2
    /\ diff[1][1] = "a"
    /\ diff[2][1] = "d"
    /\ out = "dict"

\* the list l holds exactly one instruction for every key of A or B, and no other
OnePerKey(l) ==
    /\ KeysOf(l) = (DOMAIN A) \cup (DOMAIN B)
    /\ Len(l) = Cardinality((DOMAIN A) \cup (DOMAIN B))

\* C4: under autoaccept the finished pass holds exactly one instruction for
\* every key of A or B and no other, so its length is the number of those keys
\* (0 when both are empty); the list ShowDiff returns is that list.
C4_AutoCount ==
    /\ (autoaccept /\ pc = "outer") => OnePerKey(ret)
    /\ (autoaccept /\ pc \in {"saved", "ApplyDiff", "loop", "done"}) => OnePerKey(res)

\* C4 witness: an autoaccept pass over dictionaries with different key sets has ended
C4_Witness ==
    /\ autoaccept
    /\ pc = "outer"
    /\ Len(ret) >= 2
    /\ DOMAIN A # DOMAIN B

\* the instruction ins carries the value its action stands for under C5:
\* A[key] for a Keep or a Delete of a key of A, B[key] for an Add of a key of B
CarriesValue(ins) ==
    /\ (ins[1] \in {"k", "d"} /\ ins[2] \in DOMAIN A) => ins[3] = A[ins[2]]
    /\ (ins[1] = "a" /\ ins[2] \in DOMAIN B) => ins[3] = B[ins[2]]

\* C5 as stated: in every list a diff pass produces, each Keep and each Delete
\* carries the value retained or removed, A[key], and each Add carries B[key];
\* in particular a key only in A yields (Delete, key, A[key]) under autoaccept.
C5_ValueSemantics ==
    \A n \in 1..Len(ret) : CarriesValue(ret[n])

\* C6: ApplyDiff returns None (the "unchanged" signal) for every list that
\* holds only Keep instructions, and for every list with a non-Keep instruction
\* it returns a dictionary or fails; so it returns None exactly when
\* WasChanged(list) is false.
C6_NoOpDetection ==
    ApplyEnded =>
        /\ (\A n \in 1..Len(diff) : diff[n][1] = "k") => out = "None"
        /\ (\E n \in 1..Len(diff) : diff[n][1] # "k") => out \in {"dict", "raise"}
        /\ out = "None" <=> ~WasChanged(diff)

\* C6 witness: a list of several Keep instructions was answered with None
\* although allowKeep is false
C6_Witness ==
    /\ ApplyEnded
    /\ Len(diff) >= 2
    /\ ~flags.allowKeep
    /\ out = "None"

\* C7: at every point of a call of ApplyDiff, and however it ends (a
\* dictionary, None, or an error part-way through the list), the source
\* dictionary has exactly the keys and values it had when the call began.
C7_SourceUnchanged ==
    heap.src = src0

\* C7 witness: ApplyDiff failed after it had already changed its working copy
C7_Witness ==
    /\ ApplyEnded
    /\ out = "raise"
    /\ i > 1
    /\ heap[retRef] # src0

\* the list l holds at most one instruction per key, all for keys of A or B
AtMostOnePerKey(l) ==
    /\ KeysOf(l) \subseteq (DOMAIN A) \cup (DOMAIN B)
    /\ \A m, n \in 1..Len(l) : l[m][2] = l[n][2] => m = n

\* C8: whatever the operator types (unrecognized inputs and redo included),
\* the list of a pass, while it is built and when ShowDiff returns it, holds at
\* most one instruction per key, and only keys of A or B.
C8_OnePerKey ==
    /\ AtMostOnePerKey(ret)
    /\ AtMostOnePerKey(res)

\* C8 witness: an interactive session returned a list that holds
\* instructions but none for one of the keys
C8_Witness ==
    /\ ~autoaccept
    /\ pc = "saved"
    /\ res # <<>>
    /\ KeysOf(res) # (DOMAIN A) \cup (DOMAIN B)

\* the group of the key k: 1 when only in A (Deleted), 2 when only in B
\* (Added), 3 when in both
Group(k) ==
    IF k \in (DOMAIN A) \ (DOMAIN B) THEN 1
    ELSE IF k \in (DOMAIN B) \ (DOMAIN A) THEN 2
    ELSE 3

\* the instruction x comes before the instruction y in the resolution order
Precedes(x, y) ==
    \/ Group(x[2]) < Group(y[2])
    \/ Group(x[2]) = Group(y[2]) /\ x[2] < y[2]

\* the instructions of l are in the resolution order
InOrder(l) == \A m, n \in 1..Len(l) : m < n => Precedes(l[m], l[n])

\* C9: whatever the operator chooses, the instructions are in the order
\* Deleted keys, Added keys, common keys, ascending by key within each group
\* (keys without instruction left out), in the list being built, where the row
\* being resolved comes after every instruction already in it, and in the
\* list returned.
C9_ResolutionOrder ==
    /\ InOrder(ret)
    /\ InOrder(res)
    /\ pc \in {"row", "newval"} =>
         \A n \in 1..Len(ret) : Precedes(ret[n], <<"", rows[idx].k, EmptyStr>>)

\* C9 witness: an interactive pass ended with instructions of different groups
C9_Witness ==
    /\ ~autoaccept
    /\ pc = "outer"
    /\ Len(ret) >= 2
    /\ Group(ret[1][2]) < Group(ret[Len(ret)][2])

\* the choice an input line stands for at the prompt of a status ("" when it
\* is not one of the letters of that prompt)
ChoiceOf(status, w) ==
    IF w = "c" /\ status = "Unchanged" THEN "keep"
    ELSE IF w \in {"l", "L"} /\ status # "Unchanged" THEN "left"
    ELSE IF w = "r" /\ status # "Unchanged" THEN "right"
    ELSE IF w = "n" THEN "new"
    ELSE IF w = "d" THEN "delete"
    ELSE ""

\* the decision table of C10 for the choices that resolve at once
Decision(row, choice) ==
    CASE choice = "keep" -> <<"k", row.k, row.left>>
      [] choice = "left" /\ row.status = "Added" -> None
      [] choice = "left" /\ row.status # "Added" -> <<"k", row.k, row.left>>
      [] choice = "right" /\ row.status = "Different" -> <<"e", row.k, row.right>>
      [] choice = "right" /\ row.status = "Deleted" -> <<"d", row.k, row.right>>
      [] choice = "right" /\ row.status = "Added" -> <<"a", row.k, row.right>>
      [] choice = "delete" -> <<"d", row.k, row.left>>

C11_EmptyInputDefaults ==
    [][
        /\ (pc = "row" /\ ~autoaccept /\ which' = "") =>
              /\ kdone' = idx
              /\ zz' = Decision(rows[idx],
                                IF rows[idx].status = "Unchanged" THEN "keep" ELSE "left")
        /\ (pc = "outer" /\ pc' = "outer" /\ rows # <<>>) => owhich' # ""
    ]_vars

\* the dictionary that the first n instructions of diff make of the source,
\* when each of them succeeds
RECURSIVE After(_)
After(n) ==
    IF n = 0 THEN src0
    ELSE LET m == After(n - 1)
             d == diff[n]
         IN  IF d[1] = "d" THEN [x \in (DOMAIN m) \ {d[2]} |-> m[x]]
             ELSE IF d[1] \in {"a", "e"}
               THEN [x \in (DOMAIN m) \cup {d[2]} |-> IF x = d[2] THEN d[3] ELSE m[x]]
             ELSE m

\* the error instruction n of diff meets after the first n - 1 succeeded ("" when none)
ErrAt(n) ==
    IF Disallowed(diff[n], flags) THEN "PermissionDenied"
    ELSE IF diff[n][1] = "d" /\ diff[n][2] \notin DOMAIN After(n - 1) THEN "KeyNotFound"
    ELSE IF diff[n][1] \notin {"k", "a", "d", "e"} THEN "UnrecognizedInstruction"
    ELSE ""

\* the position of the earliest failing instruction of diff, 0 when none fails
FirstFail ==
    IF \E n \in 1..Len(diff) : ErrAt(n) # ""
      THEN CHOOSE n \in 1..Len(diff) :
               ErrAt(n) # "" /\ \A m \in 1..(n - 1) : ErrAt(m) = ""
      ELSE 0

\* the instructions ApplyDiff's loop has executed so far
Executed == IF pc = "loop" THEN 1..(i - 1) ELSE IF out \in {"dict", "raise"} THEN 1..i ELSE {}

\* C12: a permitted Delete fails with KeyNotFound if and only if its key is
\* absent from the working copy when it is executed, that is from the source
\* as changed by all earlier instructions of the list; and KeyNotFound comes
\* from nothing else.
C12_DeleteOnWorkingCopy ==
    /\ \A n \in Executed :
          (diff[n][1] = "d" /\ flags.allowDelete) =>
              ((n = i /\ out = "raise" /\ err = "KeyNotFound")
                  <=> diff[n][2] \notin DOMAIN After(n - 1))
    /\ err = "KeyNotFound" => (diff[i][1] = "d" /\ flags.allowDelete)

\* C12 witness: the second Delete of a key the source holds failed with KeyNotFound
C12_Witness ==
    /\ ApplyEnded
    /\ out = "raise"
    /\ err = "KeyNotFound"
    /\ i = 2
    /\ diff[1][1] = "d"
    /\ diff[1][2] = diff[2][2]
    /\ diff[2][2] \in DOMAIN src0

\* C13: the instructions are interpreted strictly in list order; the call
\* fails at the earliest failing instruction with that instruction's error,
\* returns no dictionary then, and no later instruction is examined or
\* executed: the working copy is the source changed by the instructions before
\* the failing one only.
C13_FirstErrorWins ==
    /\ pc = "loop" =>
          /\ \A n \in 1..(i - 1) : ErrAt(n) = ""
          /\ heap[retRef] = After(i - 1)
    /\ (ApplyEnded /\ out # "None") =>
          IF FirstFail = 0
            THEN out = "dict" /\ heap[retRef] = After(Len(diff))
            ELSE /\ out = "raise"
                 /\ i = FirstFail
                 /\ err = ErrAt(FirstFail)
                 /\ heap[retRef] = After(FirstFail - 1)

\* C13 witness: the first instruction failed and the Add after it was not executed
C13_Witness ==
    /\ ApplyEnded
    /\ out = "raise"
    /\ i = 1
    /\ Len(diff) >= 2
    /\ diff[2][1] = "a"
    /\ flags.allowAdd
    /\ diff[2][2] \notin DOMAIN heap[retRef]

\* C14: on "redo" the pass starts again at the first key with an empty list and
\* the same rows; within a pass the list only grows by the instruction of the
\* key just resolved, so it never holds more than the keys resolved in this
\* pass; "save" returns the list of the pass it ends; A and B never change.
C14_RedoFromScratch ==
    [][
        /\ A' = A
        /\ B' = B
        /\ (pc = "outer" /\ pc' = "row") =>
              /\ ret' = <<>>
              /\ idx' = 1
              /\ kdone' = 0
              /\ rows' = rows
        /\ (pc' \in {"row", "newval", "outer"}) =>
              /\ ret' \in {<<>>, ret, Append(ret, zz')}
              /\ Len(ret') <= idx' - 1 \/ ret' = <<>>
              /\ KeysOf(ret') \subseteq {rows'[n].k : n \in 1..(idx' - 1)}
        /\ (pc = "outer" /\ pc' = "saved") => res' = ret
    ]_vars

\* C14 witness: a pass of two keys restarted by "redo": the operator has
\* answered prompts, yet the first key, an Unchanged one that any accepted
\* answer resolves, is to be asked with an empty list
C14_Witness ==
    /\ pc = "row"
    /\ asked
    /\ idx = 1
    /\ which = ""
    /\ ret = <<>>
    /\ Len(rows) = 2
    /\ rows[1].status = "Unchanged"

\* the line w is one of the answers the prompt for a key of this status
\* offers, the empty line for its default included
Recognized(status, w) == w = "" \/ ChoiceOf(status, w) # ""

\* C15: an answer the per-key prompt does not offer adds no instruction, leaves
\* the list as it is and the same key is asked again; an answer other than
\* save or redo at the outer prompt neither returns nor restarts the pass; and
\* with an operator who gives an accepted choice at each prompt in the end, and
\* answers "save" in the end, the session returns its list.
C15_UnrecognizedRecoverable ==
    /\ [][
           /\ (pc = "row" /\ ~autoaccept /\ ~Recognized(rows[idx].status, which')) =>
                 /\ pc' = "row"
                 /\ idx' = idx
                 /\ kdone' = kdone
                 /\ ret' = ret
                 /\ rows' = rows
                 /\ res' = res
           /\ (pc = "outer" /\ ~autoaccept /\ owhich' \notin {"", "s", "r"}) =>
                 /\ pc' = "outer"
                 /\ idx' = idx
                 /\ ret' = ret
                 /\ rows' = rows
                 /\ res' = res
       ]_vars
    /\ <>(pc = "saved")

\* C15 witness: a key has been resolved and the save/redo prompt, answered with
\* a line it does not know, is shown again with the list as it was
C15_Witness ==
    /\ pc = "outer"
    /\ ~autoaccept
    /\ owhich = "z"
    /\ Len(ret) = 1

\* C16: under autoaccept no input is ever read (no per-key prompt, no new
\* value, no save/redo prompt), every key is resolved in its one turn, the
\* save/redo decision saves the list of the first pass, and the session always
\* comes to that return.
C16_AutoAcceptSinglePass ==
    /\ [](autoaccept => (~asked /\ pc # "newval"))
    /\ [][
           autoaccept =>
             /\ pc = "row" => (idx' = idx + 1 /\ kdone' = idx)
             /\ pc = "outer" => (pc' = "saved" /\ res' = ret)
             /\ (pc' = "row" /\ idx' = 1) => pc = "ShowDiff"
       ]_vars
    /\ (autoaccept ~> (pc = "saved"))

\* C16 witness: an autoaccept session over different dictionaries has returned
\* its list and no input was read
C16_Witness ==
    /\ autoaccept
    /\ pc = "saved"
    /\ ~asked
    /\ A # B
    /\ Len(res) >= 1

\* C17 as stated: the list a session returns holds no Delete for a key that A
\* lacks, and applying it to A with every flag true ends without an error.
C17_Applicable ==
    /\ \A n \in 1..Len(res) : res[n][1] = "d" => res[n][2] \in DOMAIN A
    /\ ApplyEnded => out # "raise"

\* C18: WasChanged of the list an autoaccept session collects, and returns, is
\* false exactly when A and B are the same mapping, both empty included.
C18_ChangeDetection ==
    autoaccept =>
      /\ pc = "outer" => (~WasChanged(ret) <=> A = B)
      /\ pc \in {"saved", "ApplyDiff", "loop", "done"} => (~WasChanged(res) <=> A = B)

\* C18 witness: an autoaccept session over two dictionaries with the same keys
\* and a different value has returned a list that WasChanged reports as a change
C18_Witness ==
    /\ autoaccept
    /\ pc = "saved"
    /\ DOMAIN A = DOMAIN B
    /\ A # B
    /\ WasChanged(res)

\* C19: every instruction a per-key resolution returns, and so every
\* instruction of the list being collected and of the list returned, has one of
\* the codes k, a, d, e; the summary never meets an unknown code; and applying
\* the returned list never fails with UnrecognizedInstruction.
C19_KnownCodes ==
    /\ pc # "fatal"
    /\ zz # None => zz[1] \in {"k", "a", "d", "e"}
    /\ \A n \in 1..Len(ret) : ret[n][1] \in {"k", "a", "d", "e"}
    /\ \A n \in 1..Len(res) : res[n][1] \in {"k", "a", "d", "e"}
    /\ ApplyEnded => err # "UnrecognizedInstruction"

\* C19 witness: the list of an attended session, with an Edit and a Delete
\* among its two instructions, has been applied and a dictionary returned
C19_Witness ==
    /\ ApplyEnded
    /\ ~autoaccept
    /\ out = "dict"
    /\ Len(diff) = 2
    /\ \E n \in 1..2 : diff[n][1] = "e"
    /\ \E n \in 1..2 : diff[n][1] = "d"

====
